---- MODULE Spec2Model ----
(***************************************************************************)
(* A model of the Redis backend of valkeyrie (package redis, redis.go):    *)
(* the conditional writes AtomicPut / AtomicDelete, the keyspace watch     *)
(* (Watch, WatchTree, watchLoop, subscribe.receiveLoop) and the lease lock *)
(* (redisLock.Lock, tryLock, holdLock, Unlock).                            *)
(*                                                                         *)
(* Time is counted in ticks; Second is the number of ticks in one second.  *)
(* Keys are the normalized keys (no leading "/"), written as paths.        *)
(***************************************************************************)
EXTENDS Integers, Sequences, FiniteSets, TLC

\* ------------------------------------------------------------------ bounds

\* How many different values sequenceNum() is seen to return.
NumTokens == 2
\* How many undelivered keyspace messages one subscription buffers.
MaxQueue == 1
\* How many times Lock is called in all, in the behaviours of the locks.
MaxLocks == 3
\* How many ticks the clock makes in the behaviours of the locks.
MaxTicks == 3
\* How many watches the lock handles have open at a time.
MaxWatches == 1

\* ---------------------------------------------------------------- constants

\* time.Second, in ticks.
Second == 2
\* noExpiration = time.Duration(0).
noExpiration == 0

Tokens == 0 .. (NumTokens - 1)
Values == {"v1", "v2"}

\* The key the clients and the locks work on, and a key below it.
Dir == <<"k">>
Child == <<"k", "c">>
Keys == {Dir, Child}

Clients == {"c1", "c2"}

\* ------------------------------------------------------------------ values

\* A nil *store.KVPair (and a nil interface value).
Nil == [t |-> "nil"]
\* A *store.KVPair.
Pair(key, value, idx) == [t |-> "pair", Key |-> key, Value |-> value, LastIndex |-> idx]
\* &store.KVPair{}: the empty snapshot.
EmptyPair == Pair(<<>>, "", 0)
\* A []*store.KVPair.
List(pairs) == [t |-> "list", pairs |-> pairs]

AllPairs == {Pair(Dir, v, i) : v \in Values, i \in Tokens}

\* Errors.
NoErr == "nil"
ErrKeyNotFound == "ErrKeyNotFound"
ErrKeyModified == "ErrKeyModified"
ErrKeyExists == "ErrKeyExists"
ErrAbortTryLock == "ErrAbortTryLock"
\* A transport error of the client (also what a cancelled context gives).
ErrIO == "io"
\* The two errors the script raises, by their message.
MsgNotFound == "redis: key is not found"
MsgChanged == "redis: value has been changed"

cmdCAS == "cas"
cmdCAD == "cad"

\* --------------------------------------------------------------- the codec

\* Codec.Encode: the stored blob carries the key, the value and the token.
Encode(p) == <<p.Key, p.Value, p.LastIndex>>
\* Codec.Decode.
Decode(b) == Pair(b[1], b[2], b[3])

\* ------------------------------------------------------- the Redis server

\* One key of the server: absent, or a blob with the ticks left to live
\* (0: no expiry).
NoKey == [t |-> "none"]
Entry(blob, ttl) == [t |-> "val", blob |-> blob, ttl |-> ttl]

Event(key, payload) == [key |-> key, payload |-> payload]

\* The outcome of one request: the error, the server's keys after it and the
\* keyspace events it gave rise to.
Reply(err, s, ev) == [err |-> err, kv |-> s, ev |-> ev]

\* SET key blob [PX ttl]
RedisSet(s, key, blob, ttl) ==
    Reply(NoErr, [s EXCEPT ![key] = Entry(blob, ttl)], <<Event(key, "set")>>)

\* DEL key
RedisDel(s, key) ==
    IF s[key] = NoKey
    THEN Reply(NoErr, s, <<>>)
    ELSE Reply(NoErr, [s EXCEPT ![key] = NoKey], <<Event(key, "del")>>)

\* SET key blob NX [PX ttl]: Val() is TRUE iff the key was set.
RedisSetNXVal(s, key, fail) == ~fail /\ s[key] = NoKey

\* The Lua script (cas, cad): one indivisible request comparing the version
\* token of the stored record with the one of the expected prior record.
Script(s, cmd, key, oldVal, newVal, sec) ==
    IF s[key] = NoKey
    THEN Reply(MsgNotFound, s, <<>>)
    ELSE IF Decode(s[key].blob).LastIndex # Decode(oldVal).LastIndex
    THEN Reply(MsgChanged, s, <<>>)
    ELSE IF cmd = cmdCAS
    THEN RedisSet(s, key, newVal, sec * Second)
    ELSE RedisDel(s, key)

\* --------------------------------------------------------------- the store

\* formatSec: the duration in whole seconds.
formatSec(dur) == dur \div Second

\* Store.get
get(s, key, fail) ==
    IF fail THEN [pair |-> Nil, err |-> ErrIO]
    ELSE IF s[key] = NoKey THEN [pair |-> Nil, err |-> ErrKeyNotFound]
    ELSE LET val == Decode(s[key].blob)
         IN  [pair |-> IF val.Key = <<>> THEN [val EXCEPT !.Key = key] ELSE val,
              err |-> NoErr]

\* Store.keys, for scanRegex(directory): the keys that start with directory,
\* in a fixed order.
keys(s, directory) ==
    LET all == (IF s[Dir] # NoKey /\ Len(Dir) >= Len(directory)
                    /\ SubSeq(Dir, 1, Len(directory)) = directory
                THEN <<Dir>> ELSE <<>>)
               \o (IF s[Child] # NoKey /\ Len(Child) >= Len(directory)
                    /\ SubSeq(Child, 1, Len(directory)) = directory
                   THEN <<Child>> ELSE <<>>)
    IN  IF all = <<>> THEN [keys |-> <<>>, err |-> ErrKeyNotFound]
        ELSE [keys |-> all, err |-> NoErr]

\* Store.mget: the pairs of the keys, but for the directory itself.
RECURSIVE mget(_, _, _)
mget(s, directory, ks) ==
    IF ks = <<>> THEN <<>>
    ELSE LET pair == Decode(s[Head(ks)].blob)
             rest == mget(s, directory, Tail(ks))
         IN  IF pair.Key # directory THEN <<pair>> \o rest ELSE rest

\* Store.list
list(s, directory, fail) ==
    IF fail THEN [pair |-> Nil, err |-> ErrIO]
    ELSE LET allKeys == keys(s, directory)
         IN  IF allKeys.err # NoErr THEN [pair |-> Nil, err |-> allKeys.err]
             ELSE [pair |-> List(mget(s, directory, allKeys.keys)), err |-> NoErr]

\* Store.setTTL
setTTL(s, key, val, ttl, fail) ==
    IF fail THEN Reply(ErrIO, s, <<>>) ELSE RedisSet(s, key, Encode(val), ttl)

\* Store.Put
Put(s, key, value, ttl, idx, fail) ==
    setTTL(s, key, Pair(key, value, idx), ttl, fail)

\* Store.Delete
Delete(s, key, fail) ==
    IF fail THEN Reply(ErrIO, s, <<>>) ELSE RedisDel(s, key)

\* A plain SET in place of SET NX.
setNXOverwrites(s, key, val, expirationAfter, fail) ==
    IF fail THEN Reply(ErrKeyExists, s, <<>>)
    ELSE RedisSet(s, key, Encode(val), expirationAfter)

\* Store.setNX
setNX(s, key, val, expirationAfter, fail) ==
    IF ~RedisSetNXVal(s, key, fail)
    THEN Reply(ErrKeyExists, s, <<>>)
    ELSE RedisSet(s, key, Encode(val), expirationAfter)

\* The two script errors mapped to each other's store error.
runScriptSwapped(r, fail) ==
    IF fail THEN [r EXCEPT !.err = ErrIO]
    ELSE IF r.err = MsgNotFound THEN [r EXCEPT !.err = ErrKeyModified]
    ELSE IF r.err = MsgChanged THEN [r EXCEPT !.err = ErrKeyNotFound]
    ELSE r

\* Store.runScript, given the script's reply.
runScript(r, fail) ==
    IF fail THEN [r EXCEPT !.err = ErrIO]
    ELSE IF r.err = MsgNotFound THEN [r EXCEPT !.err = ErrKeyNotFound]
    ELSE IF r.err = MsgChanged THEN [r EXCEPT !.err = ErrKeyModified]
    ELSE r

\* Store.cas
cas(s, key, oldPair, newPair, sec, fail) ==
    runScript(IF fail THEN Reply(NoErr, s, <<>>)
              ELSE Script(s, cmdCAS, key, Encode(oldPair), Encode(newPair), sec),
              fail)

\* Store.cad
cad(s, key, old, fail) ==
    runScript(IF fail THEN Reply(NoErr, s, <<>>)
              ELSE Script(s, cmdCAD, key, Encode(old), <<>>, 0),
              fail)

\* What AtomicPut and AtomicDelete return, with the server's reply.
Result(ok, pair, r) ==
    [ok |-> ok, pair |-> pair, err |-> r.err, kv |-> r.kv, ev |-> r.ev]

\* Store.AtomicPut; idx is what sequenceNum() returns.
AtomicPut(s, key, value, previous, ttl, idx, fail) ==
    LET newKV == Pair(key, value, idx)
        r == IF previous = Nil
             THEN setNX(s, key, newKV, ttl, fail)
             ELSE cas(s, key, previous, newKV, formatSec(ttl), fail)
    IN  IF r.err # NoErr THEN Result(FALSE, Nil, r) ELSE Result(TRUE, newKV, r)

\* AtomicDelete returning true whatever cad returned.
AtomicDeleteIgnoresErr(s, key, previous, fail) ==
    LET r == cad(s, key, previous, fail)
    IN  Result(TRUE, Nil, [r EXCEPT !.err = NoErr])

\* Store.AtomicDelete
AtomicDelete(s, key, previous, fail) ==
    LET r == cad(s, key, previous, fail)
    IN  IF r.err # NoErr THEN Result(FALSE, Nil, r) ELSE Result(TRUE, Nil, r)

\* --------------------------------------------------------------- the state

Handles == {"A", "B"}
ClientWatchers == {"w"}
\* A watch, and the context it was opened with, is named after the lock
\* handle whose Lock() opened it, or after the client that called Watch.
Watchers == Handles \cup ClientWatchers

\* The lease a lock is created with (NewLock, opts.TTL), in ticks.
LockTTL == 3
TTLs == {noExpiration, LockTTL}
\* holdLock: the ticker's period, l.ttl / 3.
Heartbeat == LockTTL \div 3
\* The value a lock is created with (NewLock, opts.Value).
LockValue(h) == IF h = "A" THEN "v1" ELSE "v2"

VARIABLES
    kv,         \* the server: key -> NoKey or Entry
    queue,      \* the server: watcher -> the messages its subscription has not received
    call,       \* the last AtomicPut / AtomicDelete of a client, with the key before and after
    got,        \* client -> the record its last Get returned
    fresh,      \* client -> no write has reached the key since that Get
    cancelled,  \* the contexts that are cancelled
    wmode,      \* watcher -> "off", "key" (Watch) or "tree" (WatchTree)
    wpc,        \* watcher -> where the goroutine of Watch / WatchTree stands
    witem,      \* watcher -> the snapshot push is sending
    wmsg,       \* watcher -> the payload of the message watchLoop is handling
    rpc,        \* watcher -> where subscribe.receiveLoop stands
    rmsg,       \* watcher -> the payload receiveLoop is sending on msgCh
    reading,    \* client watcher -> its consumer still reads watchCh
    nrecv,      \* client watcher -> snapshots the consumer received (2: two or more)
    latest,     \* client watcher -> the last snapshot received
    dirty,      \* client watcher -> a write has reached a watched key since Watch was called
    lpc,        \* handle -> where the caller of Lock / Unlock stands
    last,       \* handle -> redisLock.last
    lres,       \* handle -> what the last Lock() returned
    hpc,        \* handle -> where holdLock stands
    hb,         \* handle -> ticks until the heartbeat ticker of holdLock fires
    beat,       \* handle -> a tick waits in heartbeat.C
    nlock,      \* the number of calls of Lock so far
    now,        \* the ticks of the clock so far
    lapsed      \* handle -> the lock key expired since this handle's Lock() returned success

storeVars == <<kv, queue>>
clientVars == <<call, got, fresh>>
watchVars == <<wmode, wpc, witem, wmsg, rpc, rmsg>>
consumerVars == <<reading, nrecv, latest, dirty>>
lockVars == <<lpc, last, lres, hpc, hb, beat, lapsed, nlock, now>>
vars == <<kv, queue, call, got, fresh, cancelled, wmode, wpc, witem, wmsg, rpc, rmsg,
          reading, nrecv, latest, dirty, lpc, last, lres, hpc, hb, beat, lapsed, nlock, now>>

NoCall ==
    [op |-> "none", prev |-> Nil, rival |-> FALSE, by |-> "", value |-> "", ttl |-> 0, idx |-> 0,
     fail |-> FALSE, read |-> FALSE, fresh |-> FALSE, pre |-> NoKey,
     ok |-> FALSE, err |-> NoErr, pair |-> Nil, post |-> NoKey]

Init ==
    /\ kv = [k \in Keys |-> NoKey]
    /\ queue = [w \in Watchers |-> <<>>]
    /\ call = NoCall
    /\ got = [c \in Clients |-> Nil]
    /\ fresh = [c \in Clients |-> FALSE]
    /\ cancelled = {}
    /\ wmode = [w \in Watchers |-> "off"]
    /\ wpc = [w \in Watchers |-> "off"]
    /\ witem = [w \in Watchers |-> Nil]
    /\ wmsg = [w \in Watchers |-> ""]
    /\ rpc = [w \in Watchers |-> "off"]
    /\ rmsg = [w \in Watchers |-> ""]
    /\ reading = [w \in ClientWatchers |-> FALSE]
    /\ nrecv = [w \in ClientWatchers |-> 0]
    /\ latest = [w \in ClientWatchers |-> Nil]
    /\ dirty = [w \in ClientWatchers |-> FALSE]
    /\ lpc = [h \in Handles |-> "idle"]
    /\ last = [h \in Handles |-> Nil]
    /\ lres = [h \in Handles |-> "none"]
    /\ hpc = [h \in Handles |-> "off"]
    /\ hb = [h \in Handles |-> 0]
    /\ beat = [h \in Handles |-> FALSE]
    /\ nlock = 0
    /\ now = 0
    /\ lapsed = [h \in Handles |-> FALSE]

\* ------------------------------------------------- keyspace notifications

HasPrefix(key, dir) == Len(key) >= Len(dir) /\ SubSeq(key, 1, Len(dir)) = dir

\* regexWatch: "__keyspace*:key" or "__keyspace*:key*".
regexWatch(key, withChildren, k) == IF withChildren THEN HasPrefix(k, key) ELSE k = key

\* The subscription of w (newSubscribe .. subscribe.Close) is open and its
\* pattern matches key k.
Subscribed(w, k) ==
    /\ wmode[w] # "off"
    /\ wpc[w] # "done"
    /\ regexWatch(Dir, wmode[w] = "tree", k)

\* Where a call of Lock stands from its first failed attempt until it returns.
Waiting == {"open", "wait", "retry"}

\* The consumer of w's stream will never receive again.
ConsumerGone(w) ==
    IF w \in Handles THEN lpc[w] \notin Waiting ELSE ~reading[w]

\* The goroutine of w is blocked for good in push: nothing of what its
\* subscription receives from here on is ever looked at.
Stuck(w) == wpc[w] = "push" /\ ConsumerGone(w)

\* A message is kept for w: always while w can still handle it; for a stuck
\* watch only the one message receiveLoop can still pick up.
Keeps(w) == ~Stuck(w) \/ (queue[w] = <<>> /\ rpc[w] # "send")

RECURSIVE Publish(_, _)
Publish(q, evs) ==
    IF evs = <<>> THEN q
    ELSE Publish([w \in Watchers |->
                    IF Subscribed(w, Head(evs).key) /\ Keeps(w)
                    THEN Append(q[w], Head(evs).payload) ELSE q[w]],
                 Tail(evs))

\* The model's bound on a subscription's buffer: a write waits while a
\* subscription that still drains its buffer has MaxQueue messages.
Room(ks) ==
    \A w \in Watchers :
        (\E k \in ks : Subscribed(w, k)) /\ ~Stuck(w) => Len(queue[w]) < MaxQueue

\* Whether a write has reached a key a client watcher watches.
Dirtied(evs) ==
    [w \in ClientWatchers |->
        dirty[w] \/ (wmode[w] # "off"
                      /\ \E i \in 1 .. Len(evs) : regexWatch(Dir, wmode[w] = "tree", evs[i].key))]

\* The server's side of a request that wrote: its events are published.
Commit(r) ==
    /\ kv' = r.kv
    /\ queue' = Publish(queue, r.ev)
    /\ dirty' = Dirtied(r.ev)
    /\ fresh' = [c \in Clients |->
                    fresh[c] /\ ~\E i \in 1 .. Len(r.ev) : r.ev[i].key = Dir]

\* ------------------------------------------------------------- the clients

\* sequenceNum: the nanoseconds of the wall clock, any token.
sequenceNum == Tokens

\* A client calls Get(Dir).
ClientGet(c) ==
    LET r == get(kv, Dir, FALSE)
    IN  /\ got' = [got EXCEPT ![c] = r.pair]
        /\ fresh' = [fresh EXCEPT ![c] = (r.err = NoErr)]
        /\ UNCHANGED <<kv, queue, call, cancelled, watchVars, consumerVars, lockVars>>

\* A client calls Put(key, value, ttl).
ClientPut(c, key, value, ttl) ==
    /\ Room({key})
    /\ \E idx \in sequenceNum :
          Commit(Put(kv, key, value, ttl, idx, FALSE))
    /\ UNCHANGED <<call, got, cancelled, watchVars, reading, nrecv, latest, lockVars>>

\* A client calls Delete(key).
ClientDelete(c, key) ==
    /\ Room({key})
    /\ Commit(Delete(kv, key, FALSE))
    /\ UNCHANGED <<call, got, cancelled, watchVars, reading, nrecv, latest, lockVars>>

\* What is kept of a client's conditional write: its arguments (those of the
\* new record, and the client, only when it was stored), the key before and
\* after it, and what it returned. read: previous is the record the client's
\* last Get returned; fresh: no write has reached the key since that Get;
\* rival: the conditional write before this one was another client's, made
\* with the same previous, read while it was the stored record, and it
\* succeeded.
Call(op, previous, value, ttl, idx, fail, c, r) ==
    [op |-> op, prev |-> previous, fail |-> fail,
     rival |-> (previous # Nil /\ call.ok /\ call.read /\ call.fresh
                  /\ call.prev = previous /\ call.by # c),
     by |-> IF r.ok THEN c ELSE "",
     value |-> IF r.ok THEN value ELSE "",
     ttl |-> IF r.ok THEN ttl ELSE 0,
     idx |-> IF r.ok THEN idx ELSE 0,
     read |-> (previous # Nil /\ previous = got[c]),
     fresh |-> fresh[c], pre |-> kv[Dir],
     ok |-> r.ok, err |-> r.err, pair |-> r.pair, post |-> r.kv[Dir]]

\* A client calls AtomicPut(Dir, value, previous, ttl); fail: the request
\* does not reach the server.
ClientAtomicPut(c, value, previous, ttl, fail) ==
    /\ Room({Dir})
    /\ \E idx \in sequenceNum :
          LET r == AtomicPut(kv, Dir, value, previous, ttl, idx, fail)
          IN  /\ Commit(r)
              /\ call' = Call("AtomicPut", previous, value, ttl, idx, fail, c, r)
    /\ UNCHANGED <<got, cancelled, watchVars, reading, nrecv, latest, lockVars>>

\* A client calls AtomicDelete(Dir, previous), previous not nil.
ClientAtomicDelete(c, previous, fail) ==
    /\ Room({Dir})
    /\ LET r == AtomicDelete(kv, Dir, previous, fail)
       IN  /\ Commit(r)
           /\ call' = Call("AtomicDelete", previous, "", 0, 0, fail, c, r)
    /\ UNCHANGED <<got, cancelled, watchVars, reading, nrecv, latest, lockVars>>

\* ---------------------------------------------------------------- the time

Expiring == {k \in Keys : kv[k] # NoKey /\ kv[k].ttl = 1}

\* The keys that expire at this tick, as events (Dir first).
ExpiredEvents ==
    (IF Dir \in Expiring THEN <<Event(Dir, "expired")>> ELSE <<>>)
    \o (IF Child \in Expiring THEN <<Event(Child, "expired")>> ELSE <<>>)

\* Where the renewal of a handle stands while a holdLock goroutine of it is
\* running: "run" with one goroutine, "two" with more than one, the others
\* started by a Lock on the handle while the first was running.
Running == {"run", "two"}

\* One holdLock goroutine of the handle returns.
OneLess(p) == IF p = "two" THEN "run" ELSE "done"

\* One tick of time: the server expires the keys whose time is up, and the
\* heartbeat ticker of every running holdLock advances.
Elapse ==
    /\ \/ \E k \in Keys : kv[k] # NoKey /\ kv[k].ttl > 0
       \/ \E h \in Handles : hpc[h] \in Running /\ ~beat[h]
    /\ Room(Expiring)
    /\ Commit(Reply(NoErr,
                    [k \in Keys |->
                        IF kv[k] = NoKey \/ kv[k].ttl = 0 THEN kv[k]
                        ELSE IF kv[k].ttl = 1 THEN NoKey
                        ELSE [kv[k] EXCEPT !.ttl = @ - 1]],
                    ExpiredEvents))
    /\ hb' = [h \in Handles |->
                IF hpc[h] \notin Running THEN hb[h]
                ELSE IF hb[h] = 1 THEN Heartbeat ELSE hb[h] - 1]
    /\ beat' = [h \in Handles |-> beat[h] \/ (hpc[h] \in Running /\ hb[h] = 1)]
    /\ lapsed' = [h \in Handles |->
                    lapsed[h] \/ (Dir \in Expiring /\ lpc[h] \in {"locked", "unlock", "delete"})]
    /\ UNCHANGED <<call, got, cancelled, watchVars, reading, nrecv, latest,
                   lpc, last, lres, hpc, nlock>>

Tick == Elapse /\ UNCHANGED now

\* A tick within the horizon of the clock.
TickWithin == now < MaxTicks /\ Elapse /\ now' = now + 1

\* ---------------------------------------------------------------- the watch

\* The getter of Watch (Store.get) or of WatchTree (Store.list); a request
\* made with a cancelled context fails.
getter(w) ==
    IF wmode[w] = "tree" THEN list(kv, Dir, w \in cancelled)
    ELSE get(kv, Dir, w \in cancelled)

\* The getter when the request fails (the connection is lost, the server
\* answers with an error).
getterFault(w) ==
    IF wmode[w] = "tree" THEN list(kv, Dir, TRUE) ELSE get(kv, Dir, TRUE)

\* The type assertion of the pusher: Watch sends a *store.KVPair,
\* WatchTree a []*store.KVPair, and anything else is not sent.
pusher(w, v) == IF wmode[w] = "tree" THEN v.t = "list" ELSE v.t = "pair"

\* watchLoop, a read that fails other than by not-found ends the loop.
Fatal(r) == r.err # NoErr /\ r.err # ErrKeyNotFound

\* watchLoop, the first snapshot, without the empty pair for an absent key.
InitialSnapshotNil(r) == r.pair

\* watchLoop, the first snapshot: the pair read, an empty pair if not found.
InitialSnapshot(r) == IF r.err = ErrKeyNotFound THEN EmptyPair ELSE r.pair

\* watchLoop, the snapshot after message m with the test turned around.
EventSnapshotInverted(r, m) ==
    IF r.err = ErrKeyNotFound /\ (m = "expired" \/ m = "del") THEN r.pair ELSE EmptyPair

\* watchLoop, the snapshot after message m: the pair read, an empty pair if
\* not found and the key has expired or was deleted.
EventSnapshot(r, m) ==
    IF r.err = ErrKeyNotFound /\ (m = "expired" \/ m = "del") THEN EmptyPair ELSE r.pair

\* A client calls Watch(Dir) (mode "key") or WatchTree(Dir) (mode "tree"):
\* the subscription is made and the goroutine started.
WatchOpen(w, mode) ==
    /\ wmode[w] = "off"
    /\ wmode' = [wmode EXCEPT ![w] = mode]
    /\ wpc' = [wpc EXCEPT ![w] = "start"]
    /\ reading' = [reading EXCEPT ![w] = TRUE]
    /\ UNCHANGED <<storeVars, clientVars, cancelled, witem, wmsg, rpc, rmsg,
                   nrecv, latest, dirty, lockVars>>

\* The goroutine: sub.Receive starts receiveLoop, then watchLoop reads the
\* current state and calls push with it. Returning closes watchCh and the
\* subscription.
WatchStartOn(w, r) ==
    /\ wpc[w] = "start"
    /\ rpc' = [rpc EXCEPT ![w] = "select"]
    /\ IF Fatal(r)
       THEN /\ wpc' = [wpc EXCEPT ![w] = "done"]
            /\ queue' = [queue EXCEPT ![w] = <<>>]
            /\ UNCHANGED witem
       ELSE /\ wpc' = [wpc EXCEPT ![w] = "push"]
            /\ witem' = [witem EXCEPT ![w] = InitialSnapshot(r)]
            /\ UNCHANGED queue
    /\ UNCHANGED <<kv, clientVars, cancelled, wmode, wmsg, rmsg, consumerVars, lockVars>>

\* The goroutine's start with the read of the current state as the server
\* answers it.
WatchStart(w) == WatchStartOn(w, getter(w))

\* The goroutine's start with the read of the current state failing.
WatchStartFault(w) == WatchStartOn(w, getterFault(w))

\* push with a value the type assertion refuses: nothing is sent.
PushSkip(w) ==
    /\ wpc[w] = "push"
    /\ ~pusher(w, witem[w])
    /\ wpc' = [wpc EXCEPT ![w] = "recv"]
    /\ witem' = [witem EXCEPT ![w] = Nil]
    /\ UNCHANGED <<storeVars, clientVars, cancelled, wmode, wmsg, rpc, rmsg,
                   consumerVars, lockVars>>

\* watchCh <- val meets the consumer's receive.
ConsumerRecv(w) ==
    /\ wpc[w] = "push"
    /\ pusher(w, witem[w])
    /\ reading[w]
    /\ wpc' = [wpc EXCEPT ![w] = "recv"]
    /\ witem' = [witem EXCEPT ![w] = Nil]
    /\ nrecv' = [nrecv EXCEPT ![w] = IF @ < 2 THEN @ + 1 ELSE 2]
    /\ latest' = [latest EXCEPT ![w] = witem[w]]
    /\ UNCHANGED <<storeVars, clientVars, cancelled, wmode, wmsg, rpc, rmsg,
                   reading, dirty, lockVars>>

\* The consumer stops reading watchCh.
StopReading(w) ==
    /\ reading[w]
    /\ reading' = [reading EXCEPT ![w] = FALSE]
    /\ UNCHANGED <<storeVars, clientVars, cancelled, watchVars, nrecv, latest, dirty, lockVars>>

\* for m := range msgCh: receiveLoop's send meets watchLoop's receive.
WatchRecv(w) ==
    /\ wpc[w] = "recv"
    /\ rpc[w] = "send"
    /\ wpc' = [wpc EXCEPT ![w] = "get"]
    /\ wmsg' = [wmsg EXCEPT ![w] = rmsg[w]]
    /\ rpc' = [rpc EXCEPT ![w] = "select"]
    /\ rmsg' = [rmsg EXCEPT ![w] = ""]
    /\ UNCHANGED <<storeVars, clientVars, cancelled, wmode, witem, consumerVars, lockVars>>

\* msgCh is closed: watchLoop returns nil, the goroutine closes watchCh and
\* the subscription.
WatchEnd(w) ==
    /\ wpc[w] = "recv"
    /\ rpc[w] = "done"
    /\ wpc' = [wpc EXCEPT ![w] = "done"]
    /\ queue' = [queue EXCEPT ![w] = <<>>]
    /\ UNCHANGED <<kv, clientVars, cancelled, wmode, witem, wmsg, rpc, rmsg,
                   consumerVars, lockVars>>

\* watchLoop after a message: return if the context is done, else read the
\* state again and call push with it.
WatchGetOn(w, r) ==
    /\ wpc[w] = "get"
    /\ IF w \in cancelled \/ Fatal(r)
       THEN /\ wpc' = [wpc EXCEPT ![w] = "done"]
            /\ queue' = [queue EXCEPT ![w] = <<>>]
            /\ wmsg' = [wmsg EXCEPT ![w] = ""]
            /\ UNCHANGED witem
       ELSE /\ wpc' = [wpc EXCEPT ![w] = "push"]
            /\ witem' = [witem EXCEPT ![w] = EventSnapshot(r, wmsg[w])]
            /\ UNCHANGED <<queue, wmsg>>
    /\ UNCHANGED <<kv, clientVars, cancelled, wmode, rpc, rmsg, consumerVars, lockVars>>

\* watchLoop after a message, the read answered by the server.
WatchGet(w) == WatchGetOn(w, getter(w))

\* watchLoop after a message, the read failing.
WatchGetFault(w) == WatchGetOn(w, getterFault(w))

\* receiveLoop: ReceiveMessage returns the next message of the subscription.
ReceiveMessage(w) ==
    /\ rpc[w] = "select"
    /\ wpc[w] # "done"
    /\ w \notin cancelled
    /\ queue[w] # <<>>
    /\ rpc' = [rpc EXCEPT ![w] = "send"]
    /\ rmsg' = [rmsg EXCEPT ![w] = Head(queue[w])]
    /\ queue' = [queue EXCEPT ![w] = Tail(@)]
    /\ UNCHANGED <<kv, clientVars, cancelled, wmode, wpc, witem, wmsg, consumerVars, lockVars>>

\* receiveLoop: closeCh is closed or the context is done (ReceiveMessage
\* then fails): return, closing msgCh.
ReceiveEnd(w) ==
    /\ rpc[w] = "select"
    /\ wpc[w] = "done" \/ w \in cancelled
    /\ rpc' = [rpc EXCEPT ![w] = "done"]
    /\ UNCHANGED <<storeVars, clientVars, cancelled, wmode, wpc, witem, wmsg, rmsg,
                   consumerVars, lockVars>>

\* The caller cancels the context it gave to Watch / WatchTree.
CancelWatch(w) ==
    /\ wmode[w] # "off"
    /\ w \notin cancelled
    /\ cancelled' = cancelled \cup {w}
    /\ UNCHANGED <<storeVars, clientVars, watchVars, consumerVars, lockVars>>

\* The steps of the goroutines of watch w.
WatchSteps(w) ==
    \/ WatchStart(w)
    \/ PushSkip(w)
    \/ WatchRecv(w)
    \/ WatchEnd(w)
    \/ WatchGet(w)
    \/ ReceiveMessage(w)
    \/ ReceiveEnd(w)

\* ------------------------------------------------- a watch and its writers

NextWatch ==
    \/ \E w \in ClientWatchers, mode \in {"key", "tree"} : WatchOpen(w, mode)
    \/ \E w \in ClientWatchers : WatchSteps(w)
    \/ \E w \in ClientWatchers : ConsumerRecv(w)
    \/ \E w \in ClientWatchers : StopReading(w)
    \/ \E w \in ClientWatchers : CancelWatch(w)
    \/ \E ttl \in {noExpiration, 1} : ClientPut("c1", Dir, "v1", ttl)
    \/ ClientPut("c1", Child, "v1", noExpiration)
    \/ \E k \in Keys : ClientDelete("c1", k)
    \/ Tick

\* The goroutines of a watch are scheduled, and a consumer that reads takes
\* what is sent to it.
FairWatch ==
    \A w \in ClientWatchers : WF_vars(WatchSteps(w)) /\ WF_vars(ConsumerRecv(w))

SpecWatch == Init /\ [][NextWatch]_vars /\ FairWatch

\* ------------------------------------------- a watch whose reads may fail

\* One watch with a consumer that reads, writers of its keys, and reads of
\* the watch that may fail while the context is live.
NextWatchFault ==
    \/ \E w \in ClientWatchers, mode \in {"key", "tree"} : WatchOpen(w, mode)
    \/ \E w \in ClientWatchers : WatchSteps(w)
    \/ \E w \in ClientWatchers : WatchStartFault(w)
    \/ \E w \in ClientWatchers : WatchGetFault(w)
    \/ \E w \in ClientWatchers : ConsumerRecv(w)
    \/ \E w \in ClientWatchers : CancelWatch(w)
    \/ \E k \in Keys : ClientPut("c1", k, "v1", noExpiration)
    \/ \E k \in Keys : ClientDelete("c1", k)

SpecWatchFault == Init /\ [][NextWatchFault]_vars /\ FairWatch

\* ----------------------------------------------------------------- the lock

\* tryLock: the errors after which Lock waits and tries again.
Retryable(err) == err \in {ErrKeyNotFound, ErrKeyModified, ErrKeyExists}

\* A caller calls Lock(ctx) on handle h with a context of its own. (The model
\* keeps one watch per handle: h is locked again only once the goroutines of
\* its previous wait are gone.)
LockCall(h) ==
    /\ lpc[h] = "idle"
    /\ nlock < MaxLocks
    /\ nlock' = nlock + 1
    /\ wpc[h] \in {"off", "done"}
    /\ rpc[h] \in {"off", "done"}
    /\ lpc' = [lpc EXCEPT ![h] = "try"]
    /\ lres' = [lres EXCEPT ![h] = "none"]
    /\ cancelled' = cancelled \ {h}
    /\ wmode' = [wmode EXCEPT ![h] = "off"]
    /\ wpc' = [wpc EXCEPT ![h] = "off"]
    /\ rpc' = [rpc EXCEPT ![h] = "off"]
    /\ wmsg' = [wmsg EXCEPT ![h] = ""]
    /\ UNCHANGED <<storeVars, clientVars, witem, rmsg, consumerVars,
                   last, hpc, hb, beat, lapsed, now>>

\* A caller calls Lock(ctx) again on handle h, whose Lock has returned
\* success and has not been followed by Unlock.
LockAgain(h) ==
    /\ lpc[h] = "locked"
    /\ nlock < MaxLocks
    /\ nlock' = nlock + 1
    /\ wpc[h] \in {"off", "done"}
    /\ rpc[h] \in {"off", "done"}
    /\ lpc' = [lpc EXCEPT ![h] = "try"]
    /\ lres' = [lres EXCEPT ![h] = "none"]
    /\ UNCHANGED <<storeVars, clientVars, cancelled, watchVars, consumerVars,
                   last, hpc, hb, beat, lapsed, now>>

\* tryLock, from Lock's first attempt (lpc "try") or after a snapshot (lpc
\* "retry"): AtomicPut with l.last; on success l.last is the new record,
\* holdLock is started and Lock returns lockHeld. (lres keeps whether the
\* first attempt failed on a key that was there, "busy", or not, "free".)
TryLock(h) ==
    /\ lpc[h] \in {"try", "retry"}
    /\ Room({Dir})
    /\ \E idx \in sequenceNum :
          LET r == AtomicPut(kv, Dir, LockValue(h), last[h], LockTTL, idx, h \in cancelled)
          IN  /\ Commit(r)
              /\ IF r.ok
                 THEN /\ last' = [last EXCEPT ![h] = r.pair]
                      /\ hpc' = [hpc EXCEPT ![h] = IF @ \in Running THEN "two" ELSE "run"]
                      /\ hb' = [hb EXCEPT ![h] = Heartbeat]
                      /\ beat' = [beat EXCEPT ![h] = FALSE]
                      /\ lpc' = [lpc EXCEPT ![h] = "locked"]
                      /\ lres' = [lres EXCEPT ![h] = "ok"]
                      /\ lapsed' = [lapsed EXCEPT ![h] = FALSE]
                 ELSE /\ lpc' = [lpc EXCEPT ![h] =
                                    IF ~Retryable(r.err) THEN "idle"
                                    ELSE IF lpc[h] = "try" THEN "open" ELSE "wait"]
                      /\ lres' = [lres EXCEPT ![h] =
                                    IF ~Retryable(r.err) THEN "err"
                                    ELSE IF lpc[h] = "retry" THEN @
                                    ELSE IF kv[Dir] # NoKey THEN "busy" ELSE "free"]
                      /\ UNCHANGED <<last, hpc, hb, beat, lapsed>>
    /\ UNCHANGED <<call, got, cancelled, watchVars, reading, nrecv, latest, nlock, now>>

\* Lock: l.redis.Watch(ctx, l.key, nil). (The model bounds the watches the
\* lock handles have opened and not yet given up.)
LockOpen(h) ==
    /\ lpc[h] = "open"
    /\ Cardinality({g \in Handles : wmode[g] # "off"}) < MaxWatches
    /\ lpc' = [lpc EXCEPT ![h] = "wait"]
    /\ wmode' = [wmode EXCEPT ![h] = "key"]
    /\ wpc' = [wpc EXCEPT ![h] = "start"]
    /\ UNCHANGED <<storeVars, clientVars, cancelled, witem, wmsg, rpc, rmsg,
                   consumerVars, last, lres, hpc, hb, beat, lapsed, nlock, now>>

\* Lock's select, case <-watch: a snapshot is taken from the stream.
LockRecv(h) ==
    /\ lpc[h] = "wait"
    /\ wpc[h] = "push"
    /\ pusher(h, witem[h])
    /\ lpc' = [lpc EXCEPT ![h] = "retry"]
    /\ wpc' = [wpc EXCEPT ![h] = "recv"]
    /\ witem' = [witem EXCEPT ![h] = Nil]
    /\ UNCHANGED <<storeVars, clientVars, cancelled, wmode, wmsg, rpc, rmsg,
                   consumerVars, last, lres, hpc, hb, beat, lapsed, nlock, now>>

\* Lock's select, case <-watch on the closed stream: it yields at once.
LockRecvClosed(h) ==
    /\ lpc[h] = "wait"
    /\ wpc[h] = "done"
    /\ lpc' = [lpc EXCEPT ![h] = "retry"]
    /\ UNCHANGED <<storeVars, clientVars, cancelled, watchVars, consumerVars,
                   last, lres, hpc, hb, beat, lapsed, nlock, now>>

\* Lock's select, case <-ctx.Done(): Lock returns ErrAbortTryLock.
LockAbort(h) ==
    /\ lpc[h] = "wait"
    /\ h \in cancelled
    /\ lpc' = [lpc EXCEPT ![h] = "idle"]
    /\ lres' = [lres EXCEPT ![h] = "abort"]
    /\ UNCHANGED <<storeVars, clientVars, cancelled, watchVars, consumerVars,
                   last, hpc, hb, beat, lapsed, nlock, now>>

\* The caller cancels the context it gave to Lock.
CancelLock(h, at) ==
    /\ lpc[h] \in at
    /\ h \notin cancelled
    /\ cancelled' = cancelled \cup {h}
    /\ UNCHANGED <<storeVars, clientVars, watchVars, consumerVars, lockVars>>

\* holdLock's loop with a failed renewal tried again at the next heartbeat.
holdLoopRetries(err) == "run"

\* holdLock's loop after hold() returned err: on an error holdLock returns,
\* which closes lockHeld (the deferred close); otherwise it goes on.
holdLoop(err) == IF err = NoErr THEN "run" ELSE "done"

\* holdLock, case <-heartbeat.C: hold() renews with AtomicPut(l.last); an
\* error ends holdLock, which closes lockHeld.
HoldRenew(h) ==
    /\ hpc[h] \in Running
    /\ beat[h]
    /\ Room({Dir})
    /\ \E idx \in sequenceNum :
          LET r == AtomicPut(kv, Dir, LockValue(h), last[h], LockTTL, idx, h \in cancelled)
          IN  /\ Commit(r)
              /\ last' = [last EXCEPT ![h] = IF r.err = NoErr THEN r.pair ELSE @]
              /\ hpc' = [hpc EXCEPT ![h] = IF holdLoop(r.err) = "run" THEN @ ELSE OneLess(@)]
    /\ beat' = [beat EXCEPT ![h] = FALSE]
    /\ UNCHANGED <<call, got, cancelled, watchVars, reading, nrecv, latest,
                   lpc, lres, hb, lapsed, nlock, now>>

\* holdLock, case <-ctx.Done(): return, closing lockHeld.
HoldCtx(h) ==
    /\ hpc[h] \in Running
    /\ h \in cancelled
    /\ hpc' = [hpc EXCEPT ![h] = OneLess(@)]
    /\ UNCHANGED <<storeVars, clientVars, cancelled, watchVars, consumerVars,
                   lpc, last, lres, hb, beat, lapsed, nlock, now>>

\* A caller calls Unlock on a handle whose Lock returned success.
UnlockCall(h) ==
    /\ lpc[h] = "locked"
    /\ lpc' = [lpc EXCEPT ![h] = "unlock"]
    /\ UNCHANGED <<storeVars, clientVars, cancelled, watchVars, consumerVars,
                   last, lres, hpc, hb, beat, lapsed, nlock, now>>

\* Unlock's l.unlockCh <- struct{}{} meets holdLock's case <-l.unlockCh:
\* holdLock returns, closing lockHeld.
HoldUnlock(h) ==
    /\ lpc[h] = "unlock"
    /\ hpc[h] \in Running
    /\ lpc' = [lpc EXCEPT ![h] = "delete"]
    /\ hpc' = [hpc EXCEPT ![h] = OneLess(@)]
    /\ UNCHANGED <<storeVars, clientVars, cancelled, watchVars, consumerVars,
                   last, lres, hb, beat, lapsed, nlock, now>>

\* Unlock: AtomicDelete(l.key, l.last); l.last = nil unless it failed.
UnlockDelete(h) ==
    /\ lpc[h] = "delete"
    /\ Room({Dir})
    /\ LET r == AtomicDelete(kv, Dir, last[h], FALSE)
       IN  /\ Commit(r)
           /\ last' = [last EXCEPT ![h] = IF r.err # NoErr THEN @ ELSE Nil]
           /\ lres' = [lres EXCEPT ![h] = IF r.err # NoErr THEN "unlock-err" ELSE "unlocked"]
    /\ lpc' = [lpc EXCEPT ![h] = "idle"]
    /\ UNCHANGED <<call, got, cancelled, watchVars, reading, nrecv, latest,
                   hpc, hb, beat, lapsed, nlock, now>>

\* Unlock's AtomicDelete overlapping a renewal of a holdLock that is still
\* running once Unlock's signal has been taken (the handle had more than one):
\* Unlock has read l.last, the renewal's request reaches the server, then
\* Unlock's. holdLock's l.last = item and Unlock's l.last = nil are not
\* ordered: either may be the last.
UnlockDeleteRacing(h) ==
    /\ lpc[h] = "delete"
    /\ hpc[h] \in Running
    /\ beat[h]
    /\ Room({Dir})
    /\ \E idx \in sequenceNum :
          LET r1 == AtomicPut(kv, Dir, LockValue(h), last[h], LockTTL, idx, h \in cancelled)
              r2 == AtomicDelete(r1.kv, Dir, last[h], FALSE)
          IN  /\ Commit(Reply(r2.err, r2.kv, r1.ev \o r2.ev))
              /\ \E l \in {IF r1.err = NoErr THEN r1.pair ELSE last[h],
                            IF r2.err = NoErr THEN Nil ELSE last[h]} :
                    /\ (r1.err # NoErr /\ r2.err # NoErr) => l = last[h]
                    /\ (r1.err = NoErr /\ r2.err # NoErr) => l = r1.pair
                    /\ (r1.err # NoErr /\ r2.err = NoErr) => l = Nil
                    /\ last' = [last EXCEPT ![h] = l]
              /\ hpc' = [hpc EXCEPT ![h] = IF holdLoop(r1.err) = "run" THEN @ ELSE OneLess(@)]
              /\ lres' = [lres EXCEPT ![h] = IF r2.err # NoErr THEN "unlock-err" ELSE "unlocked"]
    /\ beat' = [beat EXCEPT ![h] = FALSE]
    /\ lpc' = [lpc EXCEPT ![h] = "idle"]
    /\ UNCHANGED <<call, got, cancelled, watchVars, reading, nrecv, latest,
                   hb, lapsed, nlock, now>>

\* The steps of the caller of Lock / Unlock on h, once called.
LockSteps(h) ==
    \/ TryLock(h)
    \/ LockOpen(h)
    \/ LockRecv(h)
    \/ LockRecvClosed(h)
    \/ LockAbort(h)
    \/ HoldUnlock(h)
    \/ UnlockDelete(h)

\* ---------------------------------------------------- the locks of one key

NextLock ==
    \/ \E h \in Handles : LockCall(h)
    \/ \E h \in Handles : LockSteps(h)
    \/ \E h \in Handles : HoldRenew(h)
    \/ \E h \in Handles : UnlockCall(h)
    \/ \E h \in Handles : CancelLock(h, Waiting)
    \/ \E h \in Handles : WatchSteps(h)
    \/ TickWithin

\* The goroutines are scheduled: the callers of Lock and Unlock and the
\* goroutines of the watches. (Nothing is assumed of when holdLock runs.)
FairLock ==
    \A h \in Handles : WF_vars(LockSteps(h)) /\ WF_vars(WatchSteps(h))

SpecLock == Init /\ [][NextLock]_vars /\ FairLock

\* ------------------------------- the locks of one key, watches that may fail

\* As NextLock, and a read of a waiting Lock's watch may fail while the
\* context is live.
NextLockFault ==
    \/ NextLock
    \/ \E h \in Handles : WatchStartFault(h)
    \/ \E h \in Handles : WatchGetFault(h)

SpecLockFault == Init /\ [][NextLockFault]_vars /\ FairLock

\* ------------------------------------------------------ one lock being held

\* The handles take, renew and release the lock of one key, and a caller may
\* cancel the context of its Lock once Lock has returned. (No handle waits
\* here: a waiting Lock only reads, which changes nothing for the holder.)
NextHold ==
    \/ \E h \in Handles : LockCall(h)
    \/ \E h \in Handles : TryLock(h)
    \/ \E h \in Handles : HoldRenew(h)
    \/ \E h \in Handles : HoldCtx(h)
    \/ \E h \in Handles : CancelLock(h, {"locked"})
    \/ \E h \in Handles : UnlockCall(h)
    \/ \E h \in Handles : HoldUnlock(h)
    \/ \E h \in Handles : UnlockDelete(h)
    \/ Tick

\* The callers of Lock and Unlock are scheduled.
FairHold ==
    \A h \in Handles :
        WF_vars(TryLock(h)) /\ WF_vars(HoldUnlock(h)) /\ WF_vars(UnlockDelete(h))

SpecHold == Init /\ [][NextHold]_vars /\ FairHold

\* ------------------------------------------- a handle locked more than once

\* The handles take, renew and release the lock of one key, and a caller may
\* call Lock on a handle whose Lock has already returned success.
NextRelock ==
    \/ \E h \in Handles : LockCall(h)
    \/ \E h \in Handles : LockAgain(h)
    \/ \E h \in Handles : TryLock(h)
    \/ \E h \in Handles : HoldRenew(h)
    \/ \E h \in Handles : UnlockCall(h)
    \/ \E h \in Handles : HoldUnlock(h)
    \/ \E h \in Handles : UnlockDelete(h)
    \/ \E h \in Handles : UnlockDeleteRacing(h)
    \/ Tick

SpecRelock == Init /\ [][NextRelock]_vars /\ FairHold

\* ------------------------------------------- the conditional writes alone

NextCAS ==
    \/ \E v \in Values, ttl \in TTLs : ClientPut("c1", Dir, v, ttl)
    \/ ClientDelete("c1", Dir)
    \/ \E v \in Values, p \in AllPairs \cup {Nil}, ttl \in TTLs, f \in BOOLEAN :
          ClientAtomicPut("c1", v, p, ttl, f)
    \/ \E p \in AllPairs, f \in BOOLEAN : ClientAtomicDelete("c1", p, f)
    \/ Tick

SpecCAS == Init /\ [][NextCAS]_vars

\* ------------------------------ two clients that read, then write on condition

NextRace ==
    \/ \E c \in Clients : ClientGet(c)
    \/ \E c \in Clients, v \in Values :
          ClientAtomicPut(c, v, got[c], noExpiration, FALSE)
    \/ \E c \in Clients :
          got[c] # Nil /\ ClientAtomicDelete(c, got[c], FALSE)

SpecRace == Init /\ [][NextRace]_vars

\* ------------------------------------------------ claims: conditional writes

\* The token of the record a key held before a call.
TokenOf(e) == Decode(e.blob).LastIndex

\* C2: AtomicPut with previous = nil is create-if-absent. Whenever the request
\* reaches the server: against an absent key it succeeds, returns the new
\* record and the key holds that record with the given expiry; against a
\* present key it returns (false, nil, ErrKeyExists) and the key is untouched.
C2_CreateIfAbsent ==
    (call.op = "AtomicPut" /\ call.prev = Nil /\ ~call.fail) =>
        IF call.pre = NoKey
        THEN /\ call.ok
             /\ call.err = NoErr
             /\ call.pair = Pair(Dir, call.value, call.idx)
             /\ call.post = Entry(Encode(call.pair), call.ttl)
        ELSE /\ ~call.ok
             /\ call.err = ErrKeyExists
             /\ call.pair = Nil
             /\ call.post = call.pre

\* C2, witness: a create against a present key was refused with ErrKeyExists.
C2_Witness ==
    /\ call.op = "AtomicPut" /\ call.prev = Nil /\ ~call.fail
    /\ call.pre # NoKey
    /\ call.err = ErrKeyExists

\* C3: AtomicPut with a previous record succeeds only if the stored record's
\* token equals the token of previous; with differing tokens it fails with
\* ErrKeyModified, against an absent key with ErrKeyNotFound, and a failed
\* call leaves the key as it was.
C3_CheckAndSet ==
    (call.op = "AtomicPut" /\ call.prev # Nil /\ ~call.fail) =>
        /\ call.ok => (call.pre # NoKey /\ TokenOf(call.pre) = call.prev.LastIndex)
        /\ (call.pre # NoKey /\ TokenOf(call.pre) # call.prev.LastIndex) =>
              (~call.ok /\ call.err = ErrKeyModified /\ call.post = call.pre)
        /\ call.pre = NoKey =>
              (~call.ok /\ call.err = ErrKeyNotFound /\ call.post = call.pre)

\* C3, witness: a check-and-set whose previous carried another token than the
\* stored record failed with ErrKeyModified.
C3_Witness ==
    /\ call.op = "AtomicPut" /\ call.prev # Nil /\ ~call.fail
    /\ call.pre # NoKey
    /\ TokenOf(call.pre) # call.prev.LastIndex
    /\ call.err = ErrKeyModified

\* C4: AtomicDelete succeeds, and removes the key, if and only if the token of
\* previous equals the token of the stored record; with a differing token it
\* fails with ErrKeyModified, against an absent key with ErrKeyNotFound.
C4_CheckAndDelete ==
    (call.op = "AtomicDelete" /\ ~call.fail) =>
        /\ call.ok <=> (call.pre # NoKey /\ TokenOf(call.pre) = call.prev.LastIndex)
        /\ call.ok => (call.err = NoErr /\ call.post = NoKey)
        /\ (call.pre # NoKey /\ TokenOf(call.pre) # call.prev.LastIndex) =>
              (call.err = ErrKeyModified /\ call.post = call.pre)
        /\ call.pre = NoKey => (call.err = ErrKeyNotFound /\ call.post = call.pre)

\* C4, witness: a check-and-delete with the stored token removed the key.
C4_Witness ==
    /\ call.op = "AtomicDelete" /\ ~call.fail
    /\ call.pre # NoKey
    /\ call.ok
    /\ call.post = NoKey

\* C5: no lost update. When two clients have read the same record R and each
\* issues AtomicPut or AtomicDelete with previous = R, at most one of the two
\* calls succeeds: the call that follows the other client's successful one
\* fails with ErrKeyModified or ErrKeyNotFound.
C5_NoLostUpdate ==
    (call.op \in {"AtomicPut", "AtomicDelete"} /\ call.read /\ ~call.fresh /\ call.rival) =>
        (~call.ok /\ call.err \in {ErrKeyModified, ErrKeyNotFound})

\* ------------------------------------------------------- claims: the watch

\* C6: Watch on an absent key delivers exactly one empty snapshot as its first
\* item and nothing further until the key is written. As long as no write has
\* reached the key since Watch was called: the consumer has received nothing
\* or exactly one snapshot, the empty pair; watchLoop waits for messages only
\* once that snapshot has been taken; and the stream is open unless the
\* context was cancelled.
C6_AbsentKeyOneEmptySnapshot ==
    \A w \in ClientWatchers :
        (wmode[w] = "key" /\ ~dirty[w] /\ kv[Dir] = NoKey) =>
            /\ nrecv[w] <= 1
            /\ nrecv[w] = 1 => latest[w] = EmptyPair
            /\ wpc[w] \in {"recv", "get"} => nrecv[w] = 1
            /\ wpc[w] = "done" => w \in cancelled

\* C6, witness: the watch of an absent key has delivered its one empty
\* snapshot and waits for a message.
C6_Witness ==
    \E w \in ClientWatchers :
        /\ wmode[w] = "key" /\ ~dirty[w] /\ kv[Dir] = NoKey
        /\ w \notin cancelled
        /\ wpc[w] = "recv"
        /\ nrecv[w] = 1
        /\ latest[w] = EmptyPair

\* The record a Get of Dir returns is p.
Stored(p) == kv[Dir] # NoKey /\ get(kv, Dir, FALSE).pair = p

\* C7: with Watch(key) open, once the key holds the record of a Put, the
\* stream eventually delivers that record as its latest snapshot, unless the
\* key is written again, the context is cancelled or the consumer stops
\* reading.
C7_EventuallyLatest ==
    \A w \in ClientWatchers : \A p \in AllPairs :
        (wmode[w] = "key" /\ Stored(p))
            ~> (latest[w] = p \/ ~Stored(p) \/ w \in cancelled \/ ~reading[w])

\* C7, witness: after the message of a Put, the consumer's latest snapshot is
\* the stored record.
C7_Witness ==
    \E w \in ClientWatchers :
        /\ wmode[w] = "key"
        /\ wmsg[w] = "set"
        /\ wpc[w] = "recv"
        /\ nrecv[w] = 2
        /\ kv[Dir] # NoKey
        /\ latest[w] = get(kv, Dir, FALSE).pair

\* C8: for a message received on an open watch (Watch or WatchTree) the loop
\* reads the state again and delivers one snapshot to the consumer; after an
\* expiry or a deletion that left the key (every key of the prefix) absent it
\* is the empty snapshot. So what watchLoop calls push with after an expiry
\* or a deletion is sent on the stream.
C8_EventSnapshotDelivered ==
    \A w \in ClientWatchers :
        (wpc[w] = "push" /\ wmsg[w] \in {"expired", "del"}) => pusher(w, witem[w])


\* ------------------------------------------------------- claims of the lock

\* C1: Lock is mutually exclusive. In no reachable state have the Lock calls
\* of two handles both returned success (and neither handle has called
\* Unlock since) unless the lock key has expired under one of them since its
\* Lock returned.
C1_MutualExclusion ==
    \A h1, h2 \in Handles :
        (h1 # h2 /\ lpc[h1] = "locked" /\ lpc[h2] = "locked")
            => (lapsed[h1] \/ lapsed[h2])

\* C9: once a Lock call has returned ErrAbortTryLock, nothing of the attempt
\* remains: no holdLock runs for the handle, and the goroutine of the watch
\* it opened is not blocked in push with nobody left to receive.
C9_AbortLeavesNothing ==
    \A h \in Handles :
        (lpc[h] = "idle" /\ lres[h] = "abort")
            => (hpc[h] # "run" /\ ~(wpc[h] = "push" /\ pusher(h, witem[h])))

\* C10: a Lock call whose first attempt failed because the key was held and
\* which waits on its watch, its context not cancelled, eventually succeeds
\* once the key is gone (the holder has unlocked or its lease has lapsed),
\* unless the key is taken again first (or a write has to wait for room in
\* a subscription's buffer, which the model bounds).
C10_WaiterEventuallyLocks ==
    \A h \in Handles :
        (lpc[h] \in {"wait", "retry"} /\ lres[h] = "busy" /\ kv[Dir] = NoKey)
            ~> (lpc[h] = "locked" \/ kv[Dir] # NoKey \/ h \in cancelled \/ ~Room({Dir}))

\* ------------------------------------------- claims: errors and the tokens

\* C11: an error of the store that is not NotFound, Modified or Exists is
\* propagated verbatim by AtomicPut and AtomicDelete, on the create-if-absent
\* path as on the check-and-set path: a call whose request fails returns that
\* error, never ErrKeyExists, ErrKeyModified or ErrKeyNotFound.
C11_FatalErrorVerbatim ==
    (call.op \in {"AtomicPut", "AtomicDelete"} /\ call.fail) =>
        (~call.ok /\ call.err = ErrIO)

\* C18: every successful write assigns a fresh version token: the token of
\* the record a successful AtomicPut stores differs from the token of the
\* record it replaces.
C18_FreshToken ==
    (call.op = "AtomicPut" /\ call.ok /\ call.pre # NoKey) =>
        call.idx # TokenOf(call.pre)

\* C19: the version token of a key never decreases: the token a client's
\* successful AtomicPut stores is greater than or equal to the token of the
\* record (written by the same client) it replaces.
C19_TokenNonDecreasing ==
    (call.op = "AtomicPut" /\ call.ok /\ call.pre # NoKey) =>
        call.idx >= TokenOf(call.pre)

\* ------------------------------------------------- claims: the lock, held

\* A step of h's renewal task that handles a heartbeat: hold() is called.
Renews(h) == hpc[h] = "run" /\ beat[h] /\ ~beat'[h]

\* The lock key holds a record with the token of h's last-known record, and
\* h's context lets the request through.
RenewalDue(h) ==
    /\ h \notin cancelled
    /\ last[h] # Nil
    /\ kv[Dir] # NoKey
    /\ TokenOf(kv[Dir]) = last[h].LastIndex

\* C12: the renewal task re-issues the conditional write at a heartbeat with
\* the last-known record as expected prior: if the write goes through, the
\* key holds the new record, which becomes the last-known record, and the
\* task goes on; if it fails for any reason (the record is gone, it has been
\* changed, or the store fails) the task stops, which fires the release
\* signal, and nothing is written. Once stopped, the task writes no more:
\* the handle's value is written again only by a new Lock.
C12_RenewalStopsOnFailure ==
    [][\A h \in Handles :
          /\ Renews(h) =>
                IF RenewalDue(h)
                THEN /\ hpc'[h] = "run"
                     /\ kv'[Dir] # NoKey
                     /\ Decode(kv'[Dir].blob) = last'[h]
                     /\ last'[h].Value = LockValue(h)
                ELSE /\ hpc'[h] = "done"
                     /\ kv' = kv
                     /\ last'[h] = last[h]
          /\ (hpc[h] = "done" /\ kv'[Dir] # kv[Dir] /\ kv'[Dir] # NoKey
                 /\ Decode(kv'[Dir].blob).Value = LockValue(h)
                 /\ (kv[Dir] = NoKey \/ kv'[Dir].blob # kv[Dir].blob))
                => lpc[h] \in {"try", "retry"}
          /\ (hpc[h] = "done" /\ hpc'[h] # "done")
                => (lpc[h] \in {"try", "retry"} /\ lpc'[h] = "locked")
      ]_vars

\* A renewal has failed on a record changed by the other handle: the task has
\* stopped while its Lock still counts as held.
C12_Witness ==
    \E h \in Handles :
        /\ hpc[h] = "done"
        /\ lpc[h] = "locked"
        /\ h \notin cancelled
        /\ kv[Dir] # NoKey
        /\ Decode(kv[Dir].blob).Value # LockValue(h)

\* C13: Unlock on a held lock stops the renewal task, issues the
\* check-and-delete with the last-known record and clears the handle's local
\* record: once Unlock has returned, the renewal task has stopped and the
\* handle's held record is nil.
C13_UnlockClearsRecord ==
    \A h \in Handles :
        (lpc[h] = "idle" /\ lres[h] \in {"unlocked", "unlock-err"}) =>
            (hpc[h] = "done" /\ last[h] = Nil)

\* C14: cancelling the context of a Lock that has returned success does not
\* roll the lock back: the renewal task of a held lock stops (and the release
\* signal fires) only because Unlock was called or because a renewal was
\* attempted and failed.
C14_CancelKeepsLockHeld ==
    [][\A h \in Handles :
          (hpc[h] = "run" /\ hpc'[h] = "done") =>
              (lpc[h] = "unlock" \/ (Renews(h) /\ h \notin cancelled))
      ]_vars

\* The lock key has just been given its expiry by a successful renewal of h.
Renewed(h) == Renews(h) /\ hpc'[h] = "run" /\ kv'[Dir] # NoKey

\* C20: a renewal resets the expiry of the lock key to the lease duration, so
\* that with a renewal every third of it two renewals in a row can be missed
\* before the key expires.
C20_RenewalResetsLease ==
    [][\A h \in Handles : Renewed(h) => kv'[Dir].ttl = LockTTL]_vars

\* ------------------------------------------- claims: the end of a watch

\* C15: when the context of Watch / WatchTree is cancelled, the stream is
\* eventually closed and both goroutines end, also when the cancellation
\* comes while a snapshot waits for a consumer that has stopped reading.
C15_CancelEndsWatch ==
    \A w \in ClientWatchers :
        (w \in cancelled) ~> (wpc[w] = "done" /\ rpc[w] = "done")

\* C16: on open, Watch and WatchTree deliver one snapshot of the current
\* state before any event, whatever that state is: the first snapshot (the
\* one made before any message has been taken) is one the stream sends, also
\* for a prefix under which there is no key.
C16_InitialSnapshotSent ==
    \A w \in ClientWatchers :
        (wpc[w] = "push" /\ wmsg[w] = "") => pusher(w, witem[w])

\* C17: a read that fails other than by not-found ends the watch: the stream
\* is closed and the subscription released with its receive goroutine ended.
\* Once a watch whose context is live has ended (which only such a read
\* brings about), the receive goroutine is not left holding a message for
\* the loop that is gone.
C17_ReadFailureEndsWatch ==
    \A w \in ClientWatchers :
        (wpc[w] = "done" /\ w \notin cancelled) => rpc[w] # "send"

\* ------------------------------------------- claims: the tasks of a handle

\* C21: after any sequence of Lock and Unlock calls on a handle, the handle
\* has at most one renewal task: a Lock on a handle that holds the lock
\* starts no second holdLock.
C21_OneRenewalTask ==
    \A h \in Handles : hpc[h] # "two"

\* C22: the watch a waiting Lock opened is torn down once the acquisition is
\* over: at the latest when the Unlock that follows the Lock has returned,
\* the goroutine of the watch and the receive goroutine of its subscription
\* have ended.
C22_WaitWatchTornDown ==
    \A h \in Handles :
        (lpc[h] = "idle" /\ lres[h] \in {"unlocked", "unlock-err"}) =>
            (wpc[h] \in {"off", "done"} /\ rpc[h] \in {"off", "done"})

\* The lock key holds a record of another holder than h.
HeldByOther(h) == kv[Dir] # NoKey /\ Decode(kv[Dir].blob).Value # LockValue(h)

\* C23: Unlock never removes, and a renewal never overwrites, the record of
\* another holder: when the key holds another handle's record, the
\* check-and-delete of h's Unlock fails and h's renewal fails, and the record
\* stays in the store as it is.
C23_OthersRecordUntouched ==
    [][\A h \in Handles :
          /\ (lpc[h] = "delete" /\ lpc'[h] = "idle" /\ HeldByOther(h))
                => (kv'[Dir] = kv[Dir] /\ lres'[h] = "unlock-err")
          /\ (Renews(h) /\ HeldByOther(h))
                => (kv'[Dir] = kv[Dir] /\ hpc'[h] = "done")
      ]_vars

\* C24: an Unlock called once after a successful Lock terminates, whether the
\* renewal task is running or has stopped: a caller in Unlock's signal to the
\* renewal task has a running task to take it.
C24_UnlockTerminates ==
    \A h \in Handles : lpc[h] = "unlock" => hpc[h] \in Running

\* C25: a waiting Lock whose context is live makes an attempt only in answer
\* to a snapshot of the watch stream, one attempt for one snapshot: it leaves
\* its wait for an attempt only by taking a snapshot the stream sends, also
\* after the stream has ended on a failed read.
C25_AttemptPerSnapshot ==
    [][\A h \in Handles :
          (lpc[h] = "wait" /\ lpc'[h] = "retry" /\ h \notin cancelled)
              => (wpc[h] = "push" /\ pusher(h, witem[h]) /\ wpc'[h] = "recv")
      ]_vars

\* The lock key holds a record of h.
HeldBy(h) == kv[Dir] # NoKey /\ Decode(kv[Dir].blob).Value = LockValue(h)

\* C26: Unlock never deletes with a stale record: in every interleaving of
\* Unlock with the renewals, the check-and-delete of Unlock has as expected
\* prior the record the handle wrote last, so that the Unlock of a lock the
\* handle still holds succeeds and leaves the key absent.
C26_UnlockUsesLatest ==
    [][\A h \in Handles :
          (lpc[h] = "delete" /\ lpc'[h] = "idle" /\ HeldBy(h))
              => (kv'[Dir] = NoKey /\ lres'[h] = "unlocked")
      ]_vars

====
